---------------------------- MODULE Spec2Model ----------------------------
(***************************************************************************)
(* KiCad footprint scaler (src/kicad_footprint_scaler.py).                 *)
(*                                                                         *)
(* A footprint document is a sequence of lexemes.  Each lexeme is the      *)
(* piece of text one of the program's regular expressions looks at: a      *)
(* polygon header, a coordinate entry, a polygon trailer, a bare stroke    *)
(* marker, a size field, a thickness field, or other text.  Numeric        *)
(* fields are kept as sequences of characters, so that the character       *)
(* classes of the regular expressions, float() and the fixed-precision     *)
(* formatting are computed, not assumed.                                   *)
(*                                                                         *)
(* Numbers are exact decimals  mant * 10^(-exp)  with a separate sign (so  *)
(* that -0.0 is kept), or nan, or inf.                                     *)
(***************************************************************************)
EXTENDS Integers, Sequences, FiniteSets, TLC

VARIABLES
    content,        \* scale_footprint: the argument `content`
    scale_factor,   \* scale_footprint: the argument `scale_factor`
    result,         \* what scale_footprint returns, or that it raised
    pc,             \* "call" before scale_footprint ran, "done" after
    mpc,            \* batch driver: position in main / process_footprint
    input_file,     \* main: the selected file
    file_content,   \* process_footprint: what it read from input_file
    output_file,    \* process_footprint: the path it writes to
    fs,             \* the file system: file name -> document
    message,        \* the last thing the program printed
    original,       \* history: content of input_file when it was selected
    nwrites,        \* history: number of files written
    io_failed       \* history: a read or a write has failed

vars == <<content, scale_factor, result, pc,
          mpc, input_file, file_content, output_file, fs, message,
          original, nwrites, io_failed>>

coreVars == <<content, scale_factor, result, pc>>

driverVars == <<mpc, input_file, file_content, output_file, fs, message,
                original, nwrites, io_failed>>

---------------------------------------------------------------------------
(* Characters and numbers                                                  *)

Digits == {"0", "1", "2", "3", "4", "5", "6", "7", "8", "9"}

DigitVal(c) ==
    CASE c = "0" -> 0 [] c = "1" -> 1 [] c = "2" -> 2 [] c = "3" -> 3
      [] c = "4" -> 4 [] c = "5" -> 5 [] c = "6" -> 6 [] c = "7" -> 7
      [] c = "8" -> 8 [] c = "9" -> 9

DigitChar(n) ==
    CASE n = 0 -> "0" [] n = 1 -> "1" [] n = 2 -> "2" [] n = 3 -> "3"
      [] n = 4 -> "4" [] n = 5 -> "5" [] n = 6 -> "6" [] n = 7 -> "7"
      [] n = 8 -> "8" [] n = 9 -> "9"

RECURSIVE Pow10(_)
Pow10(n) == IF n = 0 THEN 1 ELSE 10 * Pow10(n - 1)

RECURSIVE ParseNat(_)
ParseNat(s) ==
    IF s = <<>> THEN 0
    ELSE 10 * ParseNat(SubSeq(s, 1, Len(s) - 1)) + DigitVal(s[Len(s)])

\* The character class [-\d.]+ of the coordinate pattern (line 15).
SignedNumberShape(s) ==
    /\ Len(s) >= 1
    /\ \A i \in 1..Len(s) : s[i] \in Digits \cup {"-", "."}

\* The character class [\d.]+ of the size and thickness patterns (49, 54).
NumberShape(s) ==
    /\ Len(s) >= 1
    /\ \A i \in 1..Len(s) : s[i] \in Digits \cup {"."}

ValueError == [kind |-> "ValueError"]
NaN == [kind |-> "nan"]
Fin(neg, mant, exp) == [kind |-> "fin", neg |-> neg, mant |-> mant, exp |-> exp]
Inf(neg) == [kind |-> "inf", neg |-> neg]

\* Python's float() on the strings the program hands it: an optional sign,
\* digits with at most one point and at least one digit; "nan" and "inf";
\* anything else raises ValueError.
float(s) ==
    LET neg  == Len(s) >= 1 /\ s[1] = "-"
        body == IF neg THEN Tail(s) ELSE s
        dots == {i \in 1..Len(body) : body[i] = "."}
        ok   == /\ \A i \in 1..Len(body) : body[i] \in Digits \cup {"."}
                /\ Cardinality(dots) <= 1
                /\ Len(body) - Cardinality(dots) >= 1
        dot  == IF dots = {} THEN Len(body) + 1 ELSE CHOOSE i \in dots : TRUE
        ip   == SubSeq(body, 1, dot - 1)
        fp   == SubSeq(body, dot + 1, Len(body))
    IN  IF body = <<"n", "a", "n">> THEN NaN
        ELSE IF body = <<"i", "n", "f">> THEN Inf(neg)
        ELSE IF ok THEN Fin(neg, ParseNat(ip \o fp), Len(fp))
        ELSE ValueError

\* Floating-point multiplication (lines 23, 51, 56, 79).
Mul(a, b) ==
    IF a.kind = "nan" \/ b.kind = "nan" THEN NaN
    ELSE IF a.kind = "inf" \/ b.kind = "inf"
         THEN IF (a.kind = "fin" /\ a.mant = 0) \/ (b.kind = "fin" /\ b.mant = 0)
              THEN NaN
              ELSE Inf(a.neg # b.neg)
    ELSE Fin(a.neg # b.neg, a.mant * b.mant, a.exp + b.exp)

\* n / unit rounded to the nearest integer, an exact tie to the even one.
RoundHalfEven(n, unit) ==
    LET q == n \div unit
        r == n % unit
    IN  IF 2 * r > unit THEN q + 1
        ELSE IF 2 * r < unit THEN q
        ELSE IF q % 2 = 0 THEN q ELSE q + 1

RECURSIVE NatDigits(_)
NatDigits(n) ==
    IF n < 10 THEN <<DigitChar(n)>>
    ELSE NatDigits(n \div 10) \o <<DigitChar(n % 10)>>

RECURSIVE PadDigits(_, _)
PadDigits(n, d) ==
    IF d = 0 THEN <<>>
    ELSE PadDigits(n \div 10, d - 1) \o <<DigitChar(n % 10)>>

\* The value v in units of 10^(-d), rounded.
Scaled(v, d) ==
    IF v.exp <= d THEN v.mant * Pow10(d - v.exp)
    ELSE RoundHalfEven(v.mant, Pow10(v.exp - d))

\* The format specification  :.<d>f  (lines 27, 51, 56, 80).
FormatFixed(v, d) ==
    IF v.kind = "nan" THEN <<"n", "a", "n">>
    ELSE IF v.kind = "inf"
         THEN (IF v.neg THEN <<"-">> ELSE <<>>) \o <<"i", "n", "f">>
    ELSE LET q == Scaled(v, d)
         IN  (IF v.neg THEN <<"-">> ELSE <<>>)
             \o NatDigits(q \div Pow10(d))
             \o (IF d = 0 THEN <<>> ELSE <<".">> \o PadDigits(q % Pow10(d), d))

CoordDecimals == 6
SizeDecimals == 3
NameDecimals == 1


---------------------------------------------------------------------------
(* Lexemes of a footprint document                                         *)

\* "<lead>(fp_poly<gap>(pts<tail>\n"
Header(lead, gap, tail) == [k |-> "hdr", lead |-> lead, gap |-> gap, tail |-> tail]
\* "<pre>(xy <x> <y>)": pre is the white space before the entry
XY(pre, x, y) == [k |-> "xy", pre |-> pre, x |-> x, y |-> y]
\* white space, ")", white space, "(stroke"
Trailer(text) == [k |-> "trl", text |-> text]
\* " (stroke" with no closing parenthesis of its own before it
Stroke == [k |-> "stroke"]
\* "(size <w> <h>)"
Size(w, h) == [k |-> "size", w |-> w, h |-> h]
\* "(thickness <t>)"
Thickness(t) == [k |-> "thickness", t |-> t]
\* any other text that ends with a closing parenthesis
Other(text) == [k |-> "other", text |-> text]
\* a lexeme whose closing parenthesis the polygon pattern took as its own
Unclosed(tok) == [k |-> "unclosed", tok |-> tok]

Indent == "      "
CanonicalTrailer == Trailer("\n    ) (stroke")

\* line 32, group 1:  '  \(fp_poly\s+\(pts\s*\n'
IsHeader(tok) == tok.k = "hdr" /\ tok.lead = "  " /\ tok.gap # ""

\* line 15:  '\(xy\s+([-\d.]+)\s+([-\d.]+)\)'
IsCoordinate(tok) ==
    tok.k = "xy" /\ SignedNumberShape(tok.x) /\ SignedNumberShape(tok.y)

\* line 49:  '\(size ([\d.]+) ([\d.]+)\)'
IsSize(tok) == tok.k = "size" /\ NumberShape(tok.w) /\ NumberShape(tok.h)

\* line 54:  '\(thickness ([\d.]+)\)'
IsThickness(tok) == tok.k = "thickness" /\ NumberShape(tok.t)

EndsWithParen(tok) == tok.k \in {"xy", "size", "thickness", "other"}

\* line 32, the tail of the pattern, '\s*\)\s*\(stroke', for a header at i:
\* the positions j where it can end.  The parenthesis is the trailer's own,
\* or the last character of the lexeme before a bare stroke marker.
TrailerEnds(doc, i) ==
    {j \in (i + 1)..Len(doc) :
        \/ doc[j].k = "trl"
        \/ doc[j].k = "stroke" /\ j - 1 > i /\ EndsWithParen(doc[j - 1])}

SetMin(S) == CHOOSE x \in S : \A y \in S : x <= y

\* line 32, group 2, '(.*?)' with re.DOTALL: lazy, so up to the first end.
PointsSection(doc, i, j) ==
    IF doc[j].k = "trl" THEN SubSeq(doc, i + 1, j - 1)
    ELSE SubSeq(doc, i + 1, j - 2) \o <<Unclosed(doc[j - 1])>>

Raised == [raised |-> TRUE, text |-> <<>>]
Returned(text) == [raised |-> FALSE, text |-> text]

---------------------------------------------------------------------------
(* The geometry rewriter                                                   *)

\* lines 11-19
parse_points(points_str) ==
    LET coordinates == SelectSeq(points_str, IsCoordinate)
        points == [n \in 1..Len(coordinates) |->
                      <<float(coordinates[n].x), float(coordinates[n].y)>>]
    IN  IF \E n \in 1..Len(points) :
                points[n][1] = ValueError \/ points[n][2] = ValueError
        THEN Raised
        ELSE Returned(points)

\* a slip in line 23: only x is multiplied
ScalePointsOnlyX(points, factor) ==
    [n \in 1..Len(points) |-> <<Mul(points[n][1], factor), points[n][2]>>]

\* lines 21-23
scale_points(points, factor) ==
    [n \in 1..Len(points) |-> <<Mul(points[n][1], factor), Mul(points[n][2], factor)>>]

\* lines 25-27
format_points(points, indent) ==
    [n \in 1..Len(points) |->
        XY(IF n = 1 THEN <<indent>> ELSE <<"\n", indent>>,
           FormatFixed(points[n][1], CoordDecimals),
           FormatFixed(points[n][2], CoordDecimals))]

\* lines 34-43
scale_poly_match(header, points_section, factor) ==
    LET points == parse_points(points_section)
    IN  IF points.raised THEN Raised
        ELSE Returned(<<header>>
                      \o format_points(scale_points(points.text, factor), Indent)
                      \o <<CanonicalTrailer>>)

\* line 46: where re.sub finds poly_pattern in doc from position i on:
\* leftmost matches, one after the other, not overlapping.
RECURSIVE PolyMatches(_, _)
PolyMatches(doc, i) ==
    IF i > Len(doc) THEN <<>>
    ELSE IF IsHeader(doc[i]) /\ TrailerEnds(doc, i) # {}
    THEN LET j == SetMin(TrailerEnds(doc, i))
         IN  <<[s |-> i, e |-> j]>> \o PolyMatches(doc, j + 1)
    ELSE PolyMatches(doc, i + 1)

\* line 46: what re.sub builds from position pos on, the matches ms[k..]
\* replaced by what scale_poly_match returns and the text between kept.
RECURSIVE Splice(_, _, _, _, _)
Splice(doc, ms, k, pos, factor) ==
    IF k > Len(ms) THEN Returned(SubSeq(doc, pos, Len(doc)))
    ELSE LET m == ms[k]
             repl == scale_poly_match(doc[m.s], PointsSection(doc, m.s, m.e), factor)
             rest == Splice(doc, ms, k + 1, m.e + 1, factor)
         IN  IF repl.raised \/ rest.raised THEN Raised
             ELSE Returned(SubSeq(doc, pos, m.s - 1) \o repl.text \o rest.text)

\* a slip in line 46: the coordinate pattern of line 15 substituted over the
\* whole text, not only inside the matches of poly_pattern
PolySubEveryCoordinate(doc, factor) ==
    LET hits == {n \in 1..Len(doc) : IsCoordinate(doc[n])}
    IN  IF \E n \in hits : float(doc[n].x) = ValueError \/ float(doc[n].y) = ValueError
        THEN Raised
        ELSE Returned([n \in 1..Len(doc) |->
                 IF n \in hits
                 THEN XY(doc[n].pre,
                         FormatFixed(Mul(float(doc[n].x), factor), CoordDecimals),
                         FormatFixed(Mul(float(doc[n].y), factor), CoordDecimals))
                 ELSE doc[n]])

\* line 46: re.sub(poly_pattern, scale_poly_match, content, flags=re.DOTALL)
PolySub(doc, factor) == Splice(doc, PolyMatches(doc, 1), 1, 1, factor)

\* lines 49-52
ScaleSize(tok, factor) ==
    LET w == float(tok.w)
        h == float(tok.h)
    IN  IF w = ValueError \/ h = ValueError THEN Raised
        ELSE Returned(<<Size(FormatFixed(Mul(w, factor), SizeDecimals),
                            FormatFixed(Mul(h, factor), SizeDecimals))>>)

\* lines 54-57
ScaleThickness(tok, factor) ==
    LET t == float(tok.t)
    IN  IF t = ValueError THEN Raised
        ELSE Returned(<<Thickness(FormatFixed(Mul(t, factor), SizeDecimals))>>)

\* lines 50-52: re.sub(size_pattern, ...) over the whole text
SizeSub(doc, factor) ==
    LET hits == {n \in 1..Len(doc) : IsSize(doc[n])}
    IN  IF \E n \in hits : ScaleSize(doc[n], factor).raised THEN Raised
        ELSE Returned([n \in 1..Len(doc) |->
                 IF n \in hits THEN ScaleSize(doc[n], factor).text[1] ELSE doc[n]])

\* lines 55-57: re.sub(thickness_pattern, ...) over the whole text
ThicknessSub(doc, factor) ==
    LET hits == {n \in 1..Len(doc) : IsThickness(doc[n])}
    IN  IF \E n \in hits : ScaleThickness(doc[n], factor).raised THEN Raised
        ELSE Returned([n \in 1..Len(doc) |->
                 IF n \in hits THEN ScaleThickness(doc[n], factor).text[1] ELSE doc[n]])

\* lines 50-52 on what line 46 left: an exception of line 46 ends the call
SizePass(p, factor) == IF p.raised THEN Raised ELSE SizeSub(p.text, factor)

\* lines 55-57 on what line 50 left
ThicknessPass(p, factor) == IF p.raised THEN Raised ELSE ThicknessSub(p.text, factor)

\* lines 29-59: the three passes in sequence
scale_footprint(doc, factor) ==
    ThicknessPass(SizePass(PolySub(doc, factor), factor), factor)

---------------------------------------------------------------------------
(* Inputs of the geometry rewriter                                         *)

MaxLen == 4

H1 == Header("  ", " ", "")
HTab == Header("\t", " ", "")
XYa == XY(<<Indent>>, <<"1", ".", "5">>, <<"-", "2", ".", "2", "5">>)
XYb == XY(<<" ">>, <<"0", ".", "0", "0", "0", "0", "0", "0", "4">>, <<"1">>)
XYbad == XY(<<Indent>>, <<"-">>, <<"1">>)
T1 == CanonicalTrailer
T2 == Trailer(")\n    (stroke")
SZa == Size(<<"0", ".", "8", "1", "2", "8">>, <<"1", ".", "5">>)
SZbad == Size(<<".">>, <<"1">>)
THa == Thickness(<<"0", ".", "1", "5">>)
THbad == Thickness(<<"1", ".", "2", ".", "3">>)
Layer == Other("(layer F.Cu)")

\* documents that vary the structure around the polygon blocks
Lexemes == {H1, HTab, XYa, XYb, XYbad, T1, T2, Stroke, SZa, THa, Layer}

\* documents that vary the numeric fields
FieldLexemes == {H1, XYa, XYbad, T1, SZa, SZbad, THa, THbad, Layer}

Docs == UNION {[1..n -> Lexemes] : n \in 0..MaxLen}

FieldDocs == UNION {[1..n -> FieldLexemes] : n \in 0..MaxLen}

Factors == {float(<<"0", ".", "5">>), float(<<"1", ".", "0">>), float(<<"2", ".", "0">>)}

None == [raised |-> FALSE, text |-> <<>>]

NoFile == <<>>

DriverIdle ==
    /\ mpc = "off"
    /\ input_file = NoFile
    /\ file_content = <<>>
    /\ output_file = NoFile
    /\ fs = <<>>
    /\ message = ""
    /\ original = <<>>
    /\ nwrites = 0
    /\ io_failed = FALSE

CoreStart ==
    /\ scale_factor = NaN
    /\ result = None
    /\ pc = "call"
    /\ DriverIdle

Init == content \in Docs /\ CoreStart

FieldInit == content \in FieldDocs /\ CoreStart

\* scale_footprint(content, scale_factor), lines 29-59
ScaleFootprint ==
    /\ pc = "call"
    /\ \E f \in Factors :
         /\ scale_factor' = f
         /\ result' = scale_footprint(content, f)
    /\ pc' = "done"
    /\ UNCHANGED <<content, driverVars>>

Next == ScaleFootprint

Spec == Init /\ [][Next]_vars

FieldSpec == FieldInit /\ [][Next]_vars

---------------------------------------------------------------------------
(* Properties of the geometry rewriter                                     *)

One == float(<<"1", ".", "0">>)
Two == float(<<"2", ".", "0">>)

\* two finite decimals denote the same number
SameValue(a, b) ==
    /\ a.kind = "fin" /\ b.kind = "fin"
    /\ a.mant * Pow10(b.exp) = b.mant * Pow10(a.exp)
    /\ (a.neg = b.neg \/ a.mant = 0)

\* the text txt is the number v written with exactly d decimals: the nearest
\* such number, either neighbour on a tie
Rounded(txt, v, d) ==
    LET o == float(txt)
    IN  /\ o # ValueError
        /\ o.kind = "fin" /\ v.kind = "fin"
        /\ o.exp = d
        /\ o.neg = v.neg
        /\ IF v.exp <= d THEN o.mant = v.mant * Pow10(d - v.exp)
           ELSE LET u == Pow10(v.exp - d)
                    diff == o.mant * u - v.mant
                IN  2 * diff <= u /\ 2 * diff >= 0 - u

Matches == PolyMatches(content, 1)

\* scaled_content after line 46, in the call that was made
poly_content == PolySub(content, scale_factor)

EntriesOf(doc, m) == SelectSeq(PointsSection(doc, m.s, m.e), IsCoordinate)

IsField(tok) == IsSize(tok) \/ IsThickness(tok)

\* C3: a document in which the polygon pattern, the size pattern and the
\* thickness pattern find nothing is returned unchanged, lexeme for lexeme,
\* whatever the factor.
C3_PassThrough ==
    (/\ pc = "done"
     /\ Matches = <<>>
     /\ \A n \in 1..Len(content) : ~IsField(content[n]))
    => result = Returned(content)

\* C3's case: no pattern matches, although the document holds a polygon
\* header, a coordinate entry and a third lexeme; scale_footprint has run.
C3_Witness ==
    /\ pc = "done"
    /\ Matches = <<>>
    /\ \A n \in 1..Len(content) : ~IsField(content[n])
    /\ \E n \in 1..Len(content) : IsHeader(content[n])
    /\ \E n \in 1..Len(content) : IsCoordinate(content[n])
    /\ Len(content) >= 3
    /\ scale_factor = Two

\* where match k of doc starts in the output: its start in doc, moved by
\* what the blocks before it gained or lost (a rewritten block is its
\* header, its entries and one trailer)
RECURSIVE OutStart(_, _, _)
OutStart(doc, ms, k) ==
    IF k = 1 THEN ms[1].s
    ELSE OutStart(doc, ms, k - 1)
         + Len(EntriesOf(doc, ms[k - 1])) + 2
         + (ms[k].s - ms[k - 1].e - 1)

\* in the text out, block k of doc is its header, then exactly its n entries,
\* the t-th being the t-th of doc times factor with 6 decimals, then a trailer
BlockScaled(doc, out, ms, k, factor) ==
    LET es == EntriesOf(doc, ms[k])
        o  == OutStart(doc, ms, k)
    IN  /\ o + Len(es) + 1 <= Len(out)
        /\ out[o] = doc[ms[k].s]
        /\ \A t \in 1..Len(es) :
              /\ out[o + t].k = "xy"
              /\ Rounded(out[o + t].x, Mul(float(es[t].x), factor), CoordDecimals)
              /\ Rounded(out[o + t].y, Mul(float(es[t].y), factor), CoordDecimals)
        /\ out[o + Len(es) + 1].k = "trl"

AllNumeric(es) ==
    \A t \in 1..Len(es) : float(es[t].x) # ValueError /\ float(es[t].y) # ValueError

\* C4: for every matched polygon block whose n coordinate entries are
\* numbers, what scale_poly_match returns holds exactly n entries, the k-th
\* being (x_k * F, y_k * F) with 6 decimals, in the order of the input; and
\* whenever the polygon pass, or the whole call, returns a text, every block
\* stands in it at its place with exactly its entries scaled, in order.
C4_EntriesKeptInOrder ==
    pc = "done" =>
      /\ \A k \in 1..Len(Matches) :
            LET m  == Matches[k]
                es == EntriesOf(content, m)
                r  == scale_poly_match(content[m.s],
                                       PointsSection(content, m.s, m.e), scale_factor)
            IN  AllNumeric(es) =>
                  /\ ~r.raised
                  /\ BlockScaled(<<content[m.s]>> \o es \o <<T1>>, r.text,
                                 <<[s |-> 1, e |-> Len(es) + 2]>>, 1, scale_factor)
                  /\ Len(r.text) = Len(es) + 2
      /\ ~poly_content.raised =>
            \A k \in 1..Len(Matches) :
               BlockScaled(content, poly_content.text, Matches, k, scale_factor)
      /\ ~result.raised =>
            \A k \in 1..Len(Matches) :
               BlockScaled(content, result.text, Matches, k, scale_factor)

\* C4's case: a matched block with two different entries was scaled by 2.
C4_Witness ==
    /\ pc = "done"
    /\ scale_factor = Two
    /\ ~result.raised
    /\ \E k \in 1..Len(Matches) :
          LET es == EntriesOf(content, Matches[k])
          IN  Len(es) >= 2 /\ es[1] # es[2]

NotCoordinate(tok) == tok.k # "xy"

\* C1 as stated: whenever the polygon pass returns, every lexeme outside the
\* coordinate entries (headers, trailing markers, all other text) is the
\* input's, in the same order.
C1_TextOutsideEntriesKept ==
    (pc = "done" /\ ~poly_content.raised)
    => SelectSeq(poly_content.text, NotCoordinate) = SelectSeq(content, NotCoordinate)

\* C2 as stated: scale_footprint returns a text for every input.
C2_Total == pc = "done" => ~result.raised

FieldValues(tok) ==
    IF tok.k = "size" THEN <<tok.w, tok.h>> ELSE <<tok.t>>

\* C5 as stated: the call returns, and the size and thickness fields of the
\* output are those of the input, one for one and in place, each value the
\* input's times the factor with 3 decimals.
C5_FieldsScaledOnce ==
    pc = "done" =>
      /\ ~result.raised
      /\ LET fin  == SelectSeq(content, IsField)
             fout == SelectSeq(result.text, IsField)
         IN  /\ Len(fin) = Len(fout)
             /\ \A n \in 1..Len(fin) :
                   /\ fin[n].k = fout[n].k
                   /\ \A c \in 1..Len(FieldValues(fin[n])) :
                         Rounded(FieldValues(fout[n])[c],
                                 Mul(float(FieldValues(fin[n])[c]), scale_factor),
                                 SizeDecimals)

\* C8 as stated: with factor 1.0 a call that returns leaves the value of
\* every size and thickness field as it was.
C8_FactorOneKeepsValues ==
    (pc = "done" /\ scale_factor = One /\ ~result.raised) =>
      LET fin  == SelectSeq(content, IsField)
          fout == SelectSeq(result.text, IsField)
      IN  /\ Len(fin) = Len(fout)
          /\ \A n \in 1..Len(fin) :
                \A c \in 1..Len(FieldValues(fin[n])) :
                   SameValue(float(FieldValues(fout[n])[c]),
                             float(FieldValues(fin[n])[c]))

---------------------------------------------------------------------------
(* The batch driver                                                        *)

\* A file name is its base name, a sequence of pieces, and its extension.
\* A piece is plain text or a dimension "<lead><num><gap>mm", where lead and
\* gap are white space; plain text does not end in white space.
NameText(t) == [k |-> "text", t |-> t]
Dimension(lead, num, gap) == [k |-> "dim", lead |-> lead, num |-> num, gap |-> gap]
FileName(base, ext) == [base |-> base, ext |-> ext]

\* '\d+(?:\.\d+)?' (lines 63, 77)
DecimalShape(s) ==
    LET dots == {i \in 1..Len(s) : s[i] = "."}
    IN  /\ Len(s) >= 1
        /\ \A i \in 1..Len(s) : s[i] \in Digits \cup {"."}
        /\ Cardinality(dots) <= 1
        /\ \A i \in dots : i > 1 /\ i < Len(s)

\* lines 63, 77: '(\d+(?:\.\d+)?)\s*mm'
IsDimension(piece) == piece.k = "dim" /\ DecimalShape(piece.num)

NotDimension(piece) == ~IsDimension(piece)

NoDimension == [kind |-> "None"]

\* lines 61-66
get_dimension_from_filename(base) ==
    LET found == SelectSeq(base, IsDimension)
    IN  IF found = <<>> THEN NoDimension ELSE float(found[1].num)

\* lines 68-83
create_output_filename(input_filename, factor) ==
    LET dimension == get_dimension_from_filename(input_filename.base)
    IN  IF dimension # NoDimension
        THEN FileName(SelectSeq(input_filename.base, NotDimension)
                      \o <<Dimension(" ", FormatFixed(Mul(dimension, factor), NameDecimals), "")>>,
                      input_filename.ext)
        ELSE FileName(input_filename.base \o <<NameText("_scaled")>>, input_filename.ext)

\* line 91: scale_factor < 0
IsNegative(v) ==
    \/ v.kind = "fin" /\ v.neg /\ v.mant > 0
    \/ v.kind = "inf" /\ v.neg

\* line 125: scale_factor == 0
IsZero(v) == v.kind = "fin" /\ v.mant = 0

MaxWrites == 2

Pad35 == FileName(<<NameText("pad"), Dimension(" ", <<"3", ".", "5">>, "")>>, ".kicad_mod")
Pad == FileName(<<NameText("pad")>>, ".kicad_mod")
Old35 == FileName(<<NameText("old_"), Dimension("", <<"3", ".", "5">>, "")>>, ".kicad_mod")

Footprint == <<H1, XYa, T1, SZa>>
Malformed == <<SZbad>>

\* what is typed at the prompt of line 89
PromptInputs == {<<"2", ".", "0">>, <<"1", ".", "0">>, <<"0">>, <<"-", "1">>,
                 <<"a", "b", "c">>, <<"n", "a", "n">>}

DriverInit ==
    /\ content = <<>>
    /\ scale_factor = NaN
    /\ result = None
    /\ pc = "call"
    /\ mpc = "dialog"
    /\ input_file = NoFile
    /\ file_content = <<>>
    /\ output_file = NoFile
    /\ fs = (Pad35 :> Footprint) @@ (Pad :> Footprint) @@ (Old35 :> Malformed)
    /\ message = ""
    /\ original = <<>>
    /\ nwrites = 0
    /\ io_failed = FALSE

\* main, lines 171-187: the dialog returns a file
SelectFile ==
    /\ mpc = "dialog"
    /\ \E f \in DOMAIN fs :
         /\ input_file' = f
         /\ original' = fs[f]
    /\ mpc' = "read"
    /\ message' = "Select the KiCad footprint file to scale..."
    /\ UNCHANGED <<coreVars, file_content, output_file, fs, nwrites, io_failed>>

\* main, lines 177-180: the dialog is cancelled
CancelDialog ==
    /\ mpc = "dialog"
    /\ mpc' = "exited"
    /\ message' = "No file selected. Exiting..."
    /\ UNCHANGED <<coreVars, input_file, file_content, output_file, fs,
                   original, nwrites, io_failed>>

\* process_footprint, lines 117-118: the file is read
ReadFile ==
    /\ mpc = "read"
    /\ input_file \in DOMAIN fs
    /\ file_content' = fs[input_file]
    /\ mpc' = "prompt"
    /\ UNCHANGED <<coreVars, input_file, output_file, fs, message,
                   original, nwrites, io_failed>>

\* process_footprint, lines 117-118: open or read raises; nothing catches
\* it in process_footprint (line 190) or in main (line 195)
ReadFileFails ==
    /\ mpc = "read"
    /\ mpc' = "crashed"
    /\ message' = "Traceback: OSError"
    /\ io_failed' = TRUE
    /\ UNCHANGED <<coreVars, input_file, file_content, output_file, fs,
                   original, nwrites>>

\* get_scale_factor, lines 89-90, 95-96: float raises ValueError
PromptInvalid ==
    /\ mpc = "prompt"
    /\ \E scale_str \in PromptInputs : float(scale_str) = ValueError
    /\ message' = "Please enter a valid number!"
    /\ UNCHANGED <<coreVars, mpc, input_file, file_content, output_file, fs,
                   original, nwrites, io_failed>>

\* get_scale_factor, lines 89-93: a negative number
PromptNegative ==
    /\ mpc = "prompt"
    /\ \E scale_str \in PromptInputs :
         float(scale_str) # ValueError /\ IsNegative(float(scale_str))
    /\ message' = "Scale factor must be non-negative!"
    /\ UNCHANGED <<coreVars, mpc, input_file, file_content, output_file, fs,
                   original, nwrites, io_failed>>

\* get_scale_factor, line 94, and process_footprint, lines 122-126: the
\* prompt returns 0 and process_footprint returns False; main, line 190,
\* goes back to the dialog
PromptZero ==
    /\ mpc = "prompt"
    /\ \E scale_str \in PromptInputs :
         LET f == float(scale_str)
         IN  f # ValueError /\ ~IsNegative(f) /\ IsZero(f)
    /\ mpc' = "dialog"
    /\ UNCHANGED <<coreVars, input_file, file_content, output_file, fs,
                   message, original, nwrites, io_failed>>

\* get_scale_factor, line 94, and process_footprint, lines 122-133: the
\* prompt returns a factor that is not 0, scale_footprint is called with it
\* and the output path is made; an exception of scale_footprint is caught
\* nowhere
ScaleSelected ==
    /\ mpc = "prompt"
    /\ nwrites < MaxWrites
    /\ \E scale_str \in PromptInputs :
         LET f == float(scale_str)
         IN  /\ f # ValueError /\ ~IsNegative(f) /\ ~IsZero(f)
             /\ content' = file_content
             /\ scale_factor' = f
             /\ result' = scale_footprint(file_content, f)
             /\ pc' = "done"
             /\ IF result'.raised
                THEN /\ mpc' = "crashed"
                     /\ message' = "Traceback: ValueError"
                     /\ UNCHANGED output_file
                ELSE /\ mpc' = "write"
                     /\ output_file' = create_output_filename(input_file, f)
                     /\ UNCHANGED message
    /\ UNCHANGED <<input_file, file_content, fs, original, nwrites, io_failed>>

\* process_footprint, lines 136-139, 145: the output is written and
\* process_footprint returns True; main, line 190, calls it again
WriteOutput ==
    /\ mpc = "write"
    /\ fs' = [f \in DOMAIN fs \cup {output_file} |->
                IF f = output_file THEN result.text ELSE fs[f]]
    /\ nwrites' = nwrites + 1
    /\ message' = "Scaled footprint saved successfully"
    /\ mpc' = "read"
    /\ UNCHANGED <<coreVars, input_file, file_content, output_file,
                   original, io_failed>>

\* process_footprint, lines 136-142: the write raises, the error is printed
\* and process_footprint returns False; main goes back to the dialog
WriteOutputFails ==
    /\ mpc = "write"
    /\ message' = "Error saving file"
    /\ io_failed' = TRUE
    /\ mpc' = "dialog"
    /\ UNCHANGED <<coreVars, input_file, file_content, output_file, fs,
                   original, nwrites>>

DriverNext ==
    \/ SelectFile
    \/ CancelDialog
    \/ ReadFile
    \/ ReadFileFails
    \/ PromptInvalid
    \/ PromptNegative
    \/ PromptZero
    \/ ScaleSelected
    \/ WriteOutput
    \/ WriteOutputFails

DriverSpec == DriverInit /\ [][DriverNext]_vars

---------------------------------------------------------------------------
(* Properties of the batch driver                                          *)

\* C6 as stated: whenever the driver has called scale_footprint, the factor
\* it passed is a finite number greater than 0.
C6_OnlyPositiveFactors ==
    pc = "done" =>
      /\ scale_factor.kind = "fin"
      /\ ~scale_factor.neg
      /\ scale_factor.mant > 0

\* C7 as stated: a step in which the read of the selected file or the write
\* of the output fails prints the error and leads back to the file dialog.
C7_IOFailureReturnsToDialog ==
    [][(ReadFileFails \/ WriteOutputFails)
         => (mpc' = "dialog" /\ message' = "Error saving file")]_vars

\* C9 as stated, for the runs in which no read and no write has failed: a
\* factor other than 0 is followed by one write, after which the same file
\* is read and prompted for again; 0 leads to the dialog with nothing
\* transformed or written; and the program ends only from the dialog, by its
\* being cancelled.
C9_TwoStateLoop ==
    [][~io_failed' =>
         /\ (mpc = "write" =>
               mpc' = "read" /\ input_file' = input_file /\ nwrites' = nwrites + 1)
         /\ (mpc = "prompt" /\ mpc' = "dialog" =>
               fs' = fs /\ nwrites' = nwrites /\ result' = result)
         /\ (mpc' \in {"exited", "crashed"} =>
               mpc = "dialog" /\ mpc' = "exited")]_vars

\* C10 as stated: the path written to is never the selected file, and the
\* selected file keeps the content it had when it was selected.
C10_InputNeverOverwritten ==
    /\ mpc = "write" => output_file # input_file
    /\ mpc \in {"read", "prompt", "write"} => fs[input_file] = original

===========================================================================
